---- MODULE Spec2Model ----
(***************************************************************************)
(* Model of github.com/cybozu-go/mysqltest (mysqltest.go): SetupDatabase   *)
(* provisions a random user and database on a MySQL server, registers the  *)
(* teardown with the test's cleanup stack, opens a scoped connection and   *)
(* runs the initial queries.  The server is modelled by its sets of users, *)
(* databases and grants; every driver call has a success and a failure     *)
(* outcome.                                                                *)
(***************************************************************************)
EXTENDS Integers, Sequences, FiniteSets, TLC

\* ------------------------------------------------------------------------
\* Bounds of the model
\* ------------------------------------------------------------------------

\* Longest option list passed to SetupDatabase.
MaxOptions == 2

\* Most rows a test body inserts through the returned connection.
MaxInserts == 1

\* Test functions (each calls SetupDatabase once with its own *testing.T).
Invocations == {"t1", "t2"}

\* Values randomSuffix can return (7 random bytes, base32, lower case).
Suffixes == {"aaaaaaaaaaaa", "bbbbbbbbbbbb"}

\* ------------------------------------------------------------------------
\* Program constants
\* ------------------------------------------------------------------------

maxPingRetries == 20

\* ------------------------------------------------------------------------
\* Config and options
\* ------------------------------------------------------------------------

\* mysql.NewConfig(): the fields of mysql.Config the program or the modelled
\* callers touch.  Addr, User, Passwd and DBName start empty.
NewMySQLConfig ==
    [Addr |-> "", User |-> "", Passwd |-> "", DBName |-> "", Net |-> "",
     TLSConfig |-> ""]

\* The functions callers hand to ModifyMySQLConfig.  A Go closure can keep
\* state between its calls: "setBadTLSLater" counts its calls and names an
\* unregistered TLS configuration from its second call on.
Modifiers == {"setAll", "setBadTLS", "setBadTLSLater"}

\* f(c.MySQLConfig) for each modelled f; n tells which call of the closure
\* this is, 1 for its first.
ApplyModifier(f, mc, n) ==
    CASE f = "setAll" ->
            [mc EXCEPT !.Net = "tcp", !.Addr = "callerhost:3307",
                       !.User = "calleruser", !.Passwd = "callerpw",
                       !.DBName = "callerdb"]
      [] f = "setBadTLS" -> [mc EXCEPT !.TLSConfig = "unregistered"]
      [] f = "setBadTLSLater" ->
            IF n >= 2 THEN [mc EXCEPT !.TLSConfig = "unregistered"] ELSE mc
      [] OTHER -> mc

\* Options are closures over *Config; an option is a record naming the
\* constructor and its arguments (unused arguments keep a default).
NoOptArgs ==
    [user |-> "", password |-> "", preserve |-> FALSE, f |-> "",
     queries |-> <<>>]

RootUserCredentials(user, password) ==
    [NoOptArgs EXCEPT !.user = user, !.password = password]
        @@ [kind |-> "RootUserCredentials"]

PreserveTestDB(preserve) ==
    [NoOptArgs EXCEPT !.preserve = preserve] @@ [kind |-> "PreserveTestDB"]

Verbose == NoOptArgs @@ [kind |-> "Verbose"]

ModifyMySQLConfig(f) == [NoOptArgs EXCEPT !.f = f] @@ [kind |-> "ModifyMySQLConfig"]

Query(query) == [NoOptArgs EXCEPT !.queries = <<query>>] @@ [kind |-> "Query"]

Queries(queries) == [NoOptArgs EXCEPT !.queries = queries] @@ [kind |-> "Queries"]

\* Mutant: Query and Queries put their statements in front.
ApplyOptionPrepends(o, c, n) ==
    CASE o.kind = "RootUserCredentials" ->
            [c EXCEPT !.RootUser = o.user, !.RootPassword = o.password]
      [] o.kind = "PreserveTestDB" -> [c EXCEPT !.PreserveTestDB = o.preserve]
      [] o.kind = "Verbose" -> [c EXCEPT !.Verbose = TRUE]
      [] o.kind = "ModifyMySQLConfig" ->
            [c EXCEPT !.MySQLConfig = ApplyModifier(o.f, c.MySQLConfig, n)]
      [] o.kind = "Query" -> [c EXCEPT !.Queries = o.queries \o c.Queries]
      [] o.kind = "Queries" -> [c EXCEPT !.Queries = o.queries \o c.Queries]
      [] OTHER -> c

\* option(config): the effect of the n-th call of one option closure on a
\* Config.
ApplyOption(o, c, n) ==
    CASE o.kind = "RootUserCredentials" ->
            [c EXCEPT !.RootUser = o.user, !.RootPassword = o.password]
      [] o.kind = "PreserveTestDB" -> [c EXCEPT !.PreserveTestDB = o.preserve]
      [] o.kind = "Verbose" -> [c EXCEPT !.Verbose = TRUE]
      [] o.kind = "ModifyMySQLConfig" ->
            [c EXCEPT !.MySQLConfig = ApplyModifier(o.f, c.MySQLConfig, n)]
      [] o.kind = "Query" -> [c EXCEPT !.Queries = c.Queries \o o.queries]
      [] o.kind = "Queries" -> [c EXCEPT !.Queries = c.Queries \o o.queries]
      [] OTHER -> c

\* The zero Config with the defaults newConfig sets.
DefaultConfig ==
    [RootUser |-> "root", RootPassword |-> "root", PreserveTestDB |-> FALSE,
     Verbose |-> FALSE, MySQLConfig |-> NewMySQLConfig, Queries |-> <<>>]

\* Lines 36-38: the loop of newConfig, each closure being called for the
\* n-th time.
RECURSIVE ApplyOptions(_, _, _)
ApplyOptions(opts, c, n) ==
    IF opts = <<>> THEN c
    ELSE ApplyOptions(Tail(opts), ApplyOption(Head(opts), c, n), n)

\* newConfig(options) at line 133, the first call of every closure.
newConfig(opts) == ApplyOptions(opts, DefaultConfig, 1)

\* newConfig(options) at line 185, the second call of the same closures.
newConfigAgain(opts) == ApplyOptions(opts, DefaultConfig, 2)

\* rootUserConfig as SetupDatabase builds it (lines 133-135).
RootUserConfig(opts) ==
    LET c == newConfig(opts)
    IN  [c EXCEPT !.MySQLConfig.User = c.RootUser,
                  !.MySQLConfig.Passwd = c.RootPassword]

\* Mutant: line 188 missing, DBName keeps what the options wrote.
TestUserConfigKeepsDBName(opts, user, passwd, schema) ==
    LET c == newConfigAgain(opts)
    IN  [c EXCEPT !.MySQLConfig.User = user,
                  !.MySQLConfig.Passwd = passwd]

\* testUserConfig as SetupDatabase builds it (lines 185-188).
TestUserConfig(opts, user, passwd, schema) ==
    LET c == newConfigAgain(opts)
    IN  [c EXCEPT !.MySQLConfig.User = user,
                  !.MySQLConfig.Passwd = passwd,
                  !.MySQLConfig.DBName = schema]

\* Config.FormatDSN keeps user, password, net, address, database name and
\* the parameters: user:passwd@net(addr)/dbname?tls=...
FormatDSN(mc) ==
    <<mc.User, ":", mc.Passwd, "@", mc.Net, "(", mc.Addr, ")", "/", mc.DBName,
      "?tls=", mc.TLSConfig>>

\* What the driver reads back from a DSN.
DSNUser(dsn) == dsn[1]

DSNPasswd(dsn) == dsn[3]

DSNAddr(dsn) == dsn[7]

DSNDBName(dsn) == dsn[10]

DSNTLSConfig(dsn) == dsn[12]

\* sql.Open("mysql", dsn) parses the DSN and fails on a TLS configuration
\* name that is not registered; it does not contact the server.
sqlOpenOk(dsn) == DSNTLSConfig(dsn) # "unregistered"

\* The options callers pass.
OptionUniverse ==
    {RootUserCredentials("admin", "secret"), PreserveTestDB(TRUE),
     PreserveTestDB(FALSE), Verbose, ModifyMySQLConfig("setAll"),
     ModifyMySQLConfig("setBadTLS"), ModifyMySQLConfig("setBadTLSLater"),
     Query("q1"), Queries(<<"q2", "q3">>)}

RECURSIVE SeqsUpTo(_, _)
SeqsUpTo(S, n) ==
    IF n = 0 THEN {<<>>}
    ELSE LET shorter == SeqsUpTo(S, n - 1)
         IN  shorter \cup {Append(s, x) : s \in shorter, x \in S}

OptionLists == SeqsUpTo(OptionUniverse, MaxOptions)

\* The option lists of the runs with two concurrent tests.
ConcOptionLists ==
    {<<>>, <<PreserveTestDB(TRUE)>>, <<Query("q1")>>}

\* ------------------------------------------------------------------------
\* State
\* ------------------------------------------------------------------------

VARIABLES
    inv,    \* per test: the locals of SetupDatabase, the test's cleanup
            \* stack and what the test has observed
    users,  \* accounts on the server
    dbs,    \* databases on the server
    grants, \* privileges on the server: <<user, database pattern>>
    data    \* content of the generated databases, by name

vars == <<inv, users, dbs, grants, data>>

\* "mysqltest_" + randomSuffix()
Prefixed(suffix) == "mysqltest_" \o suffix

\* The names createRandomUser and createRandomSchema can generate.
GeneratedNames == {Prefixed(x) : x \in Suffixes}

\* A database right after CREATE DATABASE: no table, no row.
EmptyDB == [todos |-> FALSE, rows |-> <<>>]

\* The initial queries of the tests: "q1" is the CREATE TABLE todos of
\* TestTodoList, "q2" and "q3" insert one row each into todos.
\* The server runs CREATE TABLE only when the table is missing and INSERT
\* only when it is there.
CanExec(query, content) ==
    IF query = "q1" THEN ~content.todos ELSE content.todos

\* Mutant: an INSERT replaces the rows of the table.
EffectOverwrites(query, content, by) ==
    IF query = "q1" THEN [content EXCEPT !.todos = TRUE]
    ELSE [content EXCEPT !.rows = <<[item |-> query, by |-> by]>>]

\* The content of a database after a statement the server ran; by is the
\* test whose connection sent it.
Effect(query, content, by) ==
    IF query = "q1" THEN [content EXCEPT !.todos = TRUE]
    ELSE [content EXCEPT !.rows = Append(@, [item |-> query, by |-> by])]

\* What the server checks before it runs a statement of a connection
\* opened with this DSN: the account and the database exist and the account
\* holds a privilege on the database.
Access(dsn) ==
    /\ dsn # <<>>
    /\ DSNUser(dsn) \in users
    /\ DSNDBName(dsn) \in dbs
    /\ DSNDBName(dsn) \in DOMAIN data
    /\ \/ <<DSNUser(dsn), DSNDBName(dsn)>> \in grants
       \/ <<DSNUser(dsn), "*">> \in grants

\* The locals of a test that has not called SetupDatabase yet.
InitLocal ==
    [pc |-> "start", options |-> <<>>,
     rootUserConfig |-> DefaultConfig, testUserConfig |-> DefaultConfig,
     db |-> "nil", rootDSN |-> <<>>,
     pings |-> 0, sleeps |-> 0, pingLog |-> <<>>, waitErr |-> "nil",
     testUser |-> "", testPasswd |-> "", testSchema |-> "",
     cleanups |-> <<>>, cleanupDB |-> "nil", cleanupDSN |-> <<>>,
     testDB |-> "nil", testDSN |-> <<>>,
     executed |-> <<>>, result |-> "running", failed |-> FALSE,
     fatalStep |-> "",
     conn |-> [DB |-> "nil", Schema |-> "", User |-> "", Password |-> ""],
     logs |-> <<>>, trace |-> <<>>, stmts |-> <<>>,
     calls |-> <<>>, inserts |-> 0, written |-> <<>>, readBack |-> <<>>]

Init ==
    /\ inv = [i \in Invocations |-> InitLocal]
    /\ users = {"root"}
    /\ dbs = {"mysql"}
    /\ grants = {<<"root", "*">>}
    /\ data = [d \in GeneratedNames |-> EmptyDB]

\* The steps of SetupDatabase a test has begun, in order; a step that spans
\* several actions is recorded once.
Began(trace, step) ==
    IF trace # <<>> /\ trace[Len(trace)] = step THEN trace
    ELSE Append(trace, step)

\* A statement sent to the server by a test.
Stmt(op, user, passwd, dbName, ok) ==
    [op |-> op, user |-> user, passwd |-> passwd, db |-> dbName, ok |-> ok]

\* Mutant: the defer statement is missing.
DeferredCloseMissing(db) == db

\* Line 148, defer db.Close(): what leaving SetupDatabase does to the
\* administrative connection.
DeferredClose(db) == IF db = "open" THEN "closed" ELSE db

\* Mutant: an abort of SetupDatabase ends the test without a cleanup phase.
FatalfSkipsCleanups(l) ==
    [l EXCEPT !.pc = "done", !.result = "Fatal", !.failed = TRUE,
              !.fatalStep = IF l.trace = <<>> THEN "" ELSE l.trace[Len(l.trace)],
              !.db = DeferredClose(l.db)]

\* Mutant: an abort of SetupDatabase registers the teardown.
FatalfRegistersTeardown(l) ==
    [l EXCEPT !.pc = "cleanup", !.result = "Fatal", !.failed = TRUE,
              !.fatalStep = IF l.trace = <<>> THEN "" ELSE l.trace[Len(l.trace)],
              !.db = DeferredClose(l.db),
              !.cleanups = IF l.testUser = "" THEN @
                           ELSE Append(@, "teardown")]

\* t.Fatalf inside SetupDatabase: the test is marked failed, SetupDatabase
\* is left through runtime.Goexit, the deferred db.Close() (line 148) runs
\* and the test's cleanup phase starts.  fatalStep remembers the step that
\* failed.
Fatalf(l) ==
    [l EXCEPT !.pc = "cleanup", !.result = "Fatal", !.failed = TRUE,
              !.fatalStep = IF l.trace = <<>> THEN "" ELSE l.trace[Len(l.trace)],
              !.db = DeferredClose(l.db)]

\* ------------------------------------------------------------------------
\* SetupDatabase, one action per step
\* ------------------------------------------------------------------------

\* Mutant: the loop of newConfig starts at the second option.
CallOptionsSkipFirst(calls, opts) ==
    [k \in 1 .. Len(opts) |->
        IF k \in DOMAIN calls
        THEN (IF k = 1 THEN calls[k] ELSE calls[k] + 1)
        ELSE (IF k = 1 THEN 0 ELSE 1)]

\* Lines 36-38: the loop of newConfig calls every option function once;
\* calls[k] counts the calls of the k-th option function of the test.
CallOptions(calls, opts) ==
    [k \in 1 .. Len(opts) |->
        IF k \in DOMAIN calls THEN calls[k] + 1 ELSE 1]

\* Lines 133-142: newConfig(options), root credentials, verbose log.
ResolveConfig(i, opts) ==
    /\ inv[i].pc = "start"
    /\ LET c == RootUserConfig(opts)
       IN  inv' = [inv EXCEPT ![i] =
                [@ EXCEPT !.pc = "open_admin", !.options = opts,
                          !.rootUserConfig = c,
                          !.calls = CallOptions(@, opts),
                          !.logs = IF c.Verbose THEN Append(@, "root") ELSE @,
                          !.trace = Append(@, "Resolve-Config")]]
    /\ UNCHANGED <<users, dbs, grants, data>>

\* Lines 144-148: sql.Open with the root DSN, defer db.Close().
OpenAdminConn(i) ==
    /\ inv[i].pc = "open_admin"
    /\ LET l == inv[i]
           dsn == FormatDSN(l.rootUserConfig.MySQLConfig)
           t == Append(l.trace, "Open-Admin-Conn")
       IN  inv' = [inv EXCEPT ![i] =
                IF sqlOpenOk(dsn)
                THEN [l EXCEPT !.pc = "probe", !.db = "open",
                               !.rootDSN = dsn, !.trace = t]
                ELSE Fatalf([l EXCEPT !.trace = t])]
    /\ UNCHANGED <<users, dbs, grants, data>>

\* Mutant: a failed check at the end of the budget starts the loop again.
PingIterationRestarts(l, ok) ==
    IF ok
    THEN [l EXCEPT !.pc = "probed", !.pings = @ + 1,
                   !.pingLog = Append(@, TRUE), !.waitErr = "nil"]
    ELSE IF l.pings + 1 = maxPingRetries
    THEN [l EXCEPT !.pings = 0, !.sleeps = 0, !.pingLog = <<>>]
    ELSE [l EXCEPT !.pings = @ + 1, !.sleeps = @ + 1,
                   !.pingLog = Append(@, FALSE)]

\* Lines 232-238: one iteration of the loop of waitUntilDatabaseAvailable.
\* ok is the outcome of db.Ping(); pings counts the iterations, sleeps the
\* calls of time.Sleep(pingInterval), pingLog the outcomes of the checks.
PingIteration(l, ok) ==
    IF ok
    THEN [l EXCEPT !.pc = "probed", !.pings = @ + 1,
                   !.pingLog = Append(@, TRUE), !.waitErr = "nil"]
    ELSE [l EXCEPT !.pings = @ + 1, !.sleeps = @ + 1,
                   !.pingLog = Append(@, FALSE)]

\* Mutant: one iteration too many.
PingLoopOffByOne(l) == l.pings <= maxPingRetries

\* The loop condition of "for range maxPingRetries" (line 232).
PingLoopContinues(l) == l.pings < maxPingRetries

Ping(i) ==
    /\ inv[i].pc = "probe"
    /\ PingLoopContinues(inv[i])
    /\ \E ok \in BOOLEAN : inv' = [inv EXCEPT ![i] = PingIteration(@, ok)]
    /\ UNCHANGED <<users, dbs, grants, data>>

\* Line 239: the loop ran out, waitUntilDatabaseAvailable returns the error.
PingExhausted(i) ==
    /\ inv[i].pc = "probe"
    /\ ~PingLoopContinues(inv[i])
    /\ inv' = [inv EXCEPT ![i] =
            [@ EXCEPT !.pc = "probed",
                      !.waitErr = "failed to connect to the database"]]
    /\ UNCHANGED <<users, dbs, grants, data>>

\* Mutant: SetupDatabase creates the schema without creating the user.
ProbeReturnSkipsUser(i) ==
    /\ inv[i].pc = "probed"
    /\ LET l == [inv[i] EXCEPT !.pings = 0, !.sleeps = 0, !.pingLog = <<>>,
                               !.waitErr = "nil",
                               !.trace = Append(@, "Probe-Available")]
       IN  inv' = [inv EXCEPT ![i] =
                IF inv[i].waitErr = "nil"
                THEN [l EXCEPT !.pc = "create_db"]
                ELSE Fatalf(l)]
    /\ UNCHANGED <<users, dbs, grants, data>>

\* Lines 150-152: SetupDatabase looks at the error; the locals of
\* waitUntilDatabaseAvailable are gone.
ProbeReturn(i) ==
    /\ inv[i].pc = "probed"
    /\ LET l == [inv[i] EXCEPT !.pings = 0, !.sleeps = 0, !.pingLog = <<>>,
                               !.waitErr = "nil",
                               !.trace = Append(@, "Probe-Available")]
       IN  inv' = [inv EXCEPT ![i] =
                IF inv[i].waitErr = "nil"
                THEN [l EXCEPT !.pc = "create_user"]
                ELSE Fatalf(l)]
    /\ UNCHANGED <<users, dbs, grants, data>>

\* Lines 242-250 and 154-157: createRandomUser.  The server refuses a user
\* name that is taken; any statement can also fail in the driver.
createRandomUser(i) ==
    /\ inv[i].pc = "create_user"
    /\ \E su \in Suffixes, sp \in Suffixes, ok \in BOOLEAN :
         LET dbUser == Prefixed(su)
             l == [inv[i] EXCEPT
                      !.trace = Append(@, "CREATE USER"),
                      !.stmts = Append(@, Stmt("CREATE USER", dbUser, sp, "", ok))]
         IN  /\ ok => dbUser \notin users
             /\ users' = IF ok THEN users \cup {dbUser} ELSE users
             /\ inv' = [inv EXCEPT ![i] =
                    IF ok
                    THEN [l EXCEPT !.pc = "create_db", !.testUser = dbUser,
                                   !.testPasswd = sp]
                    ELSE Fatalf(l)]
    /\ UNCHANGED <<dbs, grants, data>>

\* Lines 252-258 and 158-161: createRandomSchema.
createRandomSchema(i) ==
    /\ inv[i].pc = "create_db"
    /\ \E sd \in Suffixes, ok \in BOOLEAN :
         LET dbName == Prefixed(sd)
             l == [inv[i] EXCEPT
                      !.trace = Append(@, "CREATE DATABASE"),
                      !.stmts = Append(@,
                            Stmt("CREATE DATABASE", "", "", dbName, ok))]
         IN  /\ ok => dbName \notin dbs
             /\ dbs' = IF ok THEN dbs \cup {dbName} ELSE dbs
             /\ data' = IF ok THEN [data EXCEPT ![dbName] = EmptyDB] ELSE data
             /\ inv' = [inv EXCEPT ![i] =
                    IF ok
                    THEN [l EXCEPT !.pc = "grant", !.testSchema = dbName]
                    ELSE Fatalf(l)]
    /\ UNCHANGED <<users, grants>>

\* Mutant: GRANT ALL ON *.*
GrantGlobal(user, dbName) == <<user, "*">>

\* The privilege "GRANT ALL ON `dbName`.* TO 'user'@'%'" creates (line 261).
GrantTarget(user, dbName) == <<user, dbName>>

\* Lines 261-264 and 162-164: the GRANT statement of grantAllPrivileges.
grantAll(i) ==
    /\ inv[i].pc = "grant"
    /\ \E ok \in BOOLEAN :
         LET g == GrantTarget(inv[i].testUser, inv[i].testSchema)
             l == [inv[i] EXCEPT
                      !.trace = Append(@, "GRANT ALL"),
                      !.stmts = Append(@, Stmt("GRANT ALL", g[1], "", g[2], ok))]
         IN  /\ ok => g[1] \in users
             /\ grants' = IF ok THEN grants \cup {g} ELSE grants
             /\ inv' = [inv EXCEPT ![i] =
                    IF ok THEN [l EXCEPT !.pc = "flush"] ELSE Fatalf(l)]
    /\ UNCHANGED <<users, dbs, data>>

\* Lines 265-267: FLUSH PRIVILEGES.
flushPrivileges(i) ==
    /\ inv[i].pc = "flush"
    /\ \E ok \in BOOLEAN :
         LET l == [inv[i] EXCEPT
                      !.trace = Append(@, "FLUSH PRIVILEGES"),
                      !.stmts = Append(@,
                            Stmt("FLUSH PRIVILEGES", "", "", "", ok))]
         IN  inv' = [inv EXCEPT ![i] =
                IF ok THEN [l EXCEPT !.pc = "register_teardown"] ELSE Fatalf(l)]
    /\ UNCHANGED <<users, dbs, grants, data>>

\* Lines 165-182: t.Cleanup(func() {...}) pushes the teardown closure.
RegisterTeardown(i) ==
    /\ inv[i].pc = "register_teardown"
    /\ inv' = [inv EXCEPT ![i] =
            [@ EXCEPT !.pc = "open_scoped",
                      !.cleanups = Append(@, "teardown"),
                      !.trace = Append(@, "Register-Teardown")]]
    /\ UNCHANGED <<users, dbs, grants, data>>

\* Mutant: testUserConfig is rootUserConfig itself, not a second Config.
OpenScopedConnAliased(i) ==
    /\ inv[i].pc = "open_scoped"
    /\ LET c == TestUserConfig(inv[i].options, inv[i].testUser,
                               inv[i].testPasswd, inv[i].testSchema)
           dsn == FormatDSN(c.MySQLConfig)
           l == [inv[i] EXCEPT
                    !.testUserConfig = c,
                    !.rootUserConfig = c,
                    !.calls = CallOptions(@, inv[i].options),
                    !.logs = IF c.Verbose THEN Append(@, "test") ELSE @,
                    !.trace = Append(@, "Open-Scoped-Conn")]
       IN  inv' = [inv EXCEPT ![i] =
                IF sqlOpenOk(dsn)
                THEN [l EXCEPT !.pc = "queries", !.testDB = "open",
                               !.testDSN = dsn]
                ELSE Fatalf(l)]
    /\ UNCHANGED <<users, dbs, grants, data>>

\* Lines 185-201: testUserConfig, verbose log, sql.Open with the test DSN.
OpenScopedConn(i) ==
    /\ inv[i].pc = "open_scoped"
    /\ LET c == TestUserConfig(inv[i].options, inv[i].testUser,
                               inv[i].testPasswd, inv[i].testSchema)
           dsn == FormatDSN(c.MySQLConfig)
           l == [inv[i] EXCEPT
                    !.testUserConfig = c,
                    !.calls = CallOptions(@, inv[i].options),
                    !.logs = IF c.Verbose THEN Append(@, "test") ELSE @,
                    !.trace = Append(@, "Open-Scoped-Conn")]
       IN  inv' = [inv EXCEPT ![i] =
                IF sqlOpenOk(dsn)
                THEN [l EXCEPT !.pc = "queries", !.testDB = "open",
                               !.testDSN = dsn]
                ELSE Fatalf(l)]
    /\ UNCHANGED <<users, dbs, grants, data>>

\* Mutant: the loop goes on after a failed query.
ExecQueryContinue(l, ok) ==
    LET query == l.testUserConfig.Queries[Len(l.executed) + 1]
    IN  [l EXCEPT !.executed = Append(@, [query |-> query, ok |-> ok]),
                  !.trace = Began(@, "Run-Initial-Statements")]

\* Lines 203-207: one iteration of the loop over testUserConfig.Queries.
\* executed records each query handed to testDB.Exec and its outcome.
ExecQuery(l, ok) ==
    LET query == l.testUserConfig.Queries[Len(l.executed) + 1]
        x == [l EXCEPT !.executed = Append(@, [query |-> query, ok |-> ok]),
                       !.trace = Began(@, "Run-Initial-Statements")]
    IN  IF ok THEN x ELSE Fatalf(x)

RunInitialStatement(i) ==
    /\ inv[i].pc = "queries"
    /\ Len(inv[i].executed) < Len(inv[i].testUserConfig.Queries)
    /\ \E ok \in BOOLEAN :
         LET dsn == inv[i].testDSN
             dbName == DSNDBName(dsn)
             query == inv[i].testUserConfig.Queries[Len(inv[i].executed) + 1]
         IN  /\ ok => (Access(dsn) /\ CanExec(query, data[dbName]))
             /\ data' = IF ok
                        THEN [data EXCEPT ![dbName] = Effect(query, @, i)]
                        ELSE data
             /\ inv' = [inv EXCEPT ![i] = ExecQuery(@, ok)]
    /\ UNCHANGED <<users, dbs, grants>>

\* Lines 208-212: after the loop, t.Cleanup pushes the closure that closes
\* testDB.
RegisterClose(i) ==
    /\ inv[i].pc = "queries"
    /\ Len(inv[i].executed) = Len(inv[i].testUserConfig.Queries)
    /\ inv' = [inv EXCEPT ![i] =
            [@ EXCEPT !.pc = "return",
                      !.cleanups = Append(@, "close"),
                      !.trace = Began(@, "Run-Initial-Statements")]]
    /\ UNCHANGED <<users, dbs, grants, data>>

\* Mutant: the fields of the Conn are mixed up.
ConnMixedUp(l) ==
    [DB |-> "testDB", Schema |-> l.testSchema, User |-> l.testUser,
     Password |-> l.testUser]

\* Lines 213-218: the Conn SetupDatabase returns.
ConnOf(l) ==
    [DB |-> "testDB", Schema |-> l.testSchema, User |-> l.testUser,
     Password |-> l.testPasswd]

\* Mutant: db.Close() is called in the error branches only, not on return.
ReturnKeepsAdminConn(i) ==
    /\ inv[i].pc = "return"
    /\ inv' = [inv EXCEPT ![i] =
            [@ EXCEPT !.pc = "body", !.result = "Ready",
                      !.conn = ConnOf(inv[i]),
                      !.trace = Append(@, "Ready")]]
    /\ UNCHANGED <<users, dbs, grants, data>>

\* Lines 213-218: return &Conn{...}; the deferred db.Close() runs.
Return(i) ==
    /\ inv[i].pc = "return"
    /\ inv' = [inv EXCEPT ![i] =
            [@ EXCEPT !.pc = "body", !.result = "Ready",
                      !.db = DeferredClose(@),
                      !.conn = ConnOf(inv[i]),
                      !.trace = Append(@, "Ready")]]
    /\ UNCHANGED <<users, dbs, grants, data>>

\* The body of the test (mysqltest_test.go, TodoList.Add): one INSERT INTO
\* todos through conn.DB.  written keeps the rows the server accepted.
InsertRow(i) ==
    /\ inv[i].pc = "body"
    /\ inv[i].inserts < MaxInserts
    /\ \E ok \in BOOLEAN :
         LET dsn == inv[i].testDSN
             dbName == DSNDBName(dsn)
             row == [item |-> "item", by |-> i]
         IN  /\ ok => (Access(dsn) /\ data[dbName].todos)
             /\ data' = IF ok
                        THEN [data EXCEPT ![dbName].rows = Append(@, row)]
                        ELSE data
             /\ inv' = [inv EXCEPT ![i] =
                    [@ EXCEPT !.inserts = @ + 1,
                              !.written = IF ok THEN Append(@, row) ELSE @]]
    /\ UNCHANGED <<users, dbs, grants>>

\* The body of the test (TodoList.List): SELECT item FROM todos through
\* conn.DB; readBack keeps the rows returned.
ReadBack(i) ==
    /\ inv[i].pc = "body"
    /\ LET dsn == inv[i].testDSN
       IN  /\ Access(dsn)
           /\ data[DSNDBName(dsn)].todos
           /\ inv' = [inv EXCEPT ![i] =
                  [@ EXCEPT !.pc = "read",
                            !.readBack = data[DSNDBName(dsn)].rows]]
    /\ UNCHANGED <<users, dbs, grants, data>>

\* The test function returns; the testing package starts the cleanup phase.
TestEnd(i) ==
    /\ inv[i].pc \in {"body", "read"}
    /\ inv' = [inv EXCEPT ![i] = [@ EXCEPT !.pc = "cleanup"]]
    /\ UNCHANGED <<users, dbs, grants, data>>

\* ------------------------------------------------------------------------
\* The cleanup phase: the testing package pops the registered closures,
\* last registered first, and runs each; a t.Fatalf inside a closure marks
\* the test failed and ends that closure only.
\* ------------------------------------------------------------------------

\* Mutant: the closure registered first runs first.
TopFirstRegistered(stack) == stack[1]

Top(stack) == stack[Len(stack)]

Pop(stack) == SubSeq(stack, 1, Len(stack) - 1)

\* Mutant: a Close error of testDB is reported with t.Fatalf.
AfterCloseErrorFatal(l) ==
    [l EXCEPT !.logs = Append(@, "close failed"), !.failed = TRUE]

\* Lines 209-211: what the closure does with a Close error: t.Logf.
AfterCloseError(l) == [l EXCEPT !.logs = Append(@, "close failed")]

\* Lines 208-212: the closure closing testDB; a Close error is only logged.
CloseTestDB(i) ==
    /\ inv[i].pc = "cleanup"
    /\ inv[i].cleanups # <<>>
    /\ Top(inv[i].cleanups) = "close"
    /\ \E ok \in BOOLEAN :
         LET l == [inv[i] EXCEPT !.cleanups = Pop(@), !.testDB = "closed"]
         IN  inv' = [inv EXCEPT ![i] = IF ok THEN l ELSE AfterCloseError(l)]
    /\ UNCHANGED <<users, dbs, grants, data>>

\* Mutant: the teardown closure tests the negated flag.
PreservedInverted(l) == ~l.rootUserConfig.PreserveTestDB

\* Mutant: the teardown closure ignores the flag.
PreservedIgnored(l) == FALSE

\* Line 172: the flag the teardown closure tests.
Preserved(l) == l.rootUserConfig.PreserveTestDB

\* Lines 166-178: the teardown closure up to the call of teardown: reopen
\* the root connection, return early when the database is preserved.
TeardownBegin(i) ==
    /\ inv[i].pc = "cleanup"
    /\ inv[i].cleanups # <<>>
    /\ Top(inv[i].cleanups) = "teardown"
    /\ LET l == [inv[i] EXCEPT !.cleanups = Pop(@)]
           dsn == FormatDSN(l.rootUserConfig.MySQLConfig)
       IN  inv' = [inv EXCEPT ![i] =
                IF ~sqlOpenOk(dsn)
                THEN [l EXCEPT !.failed = TRUE]
                ELSE IF Preserved(l)
                THEN [l EXCEPT !.cleanupDB = "closed", !.cleanupDSN = dsn,
                               !.logs = IF l.rootUserConfig.Verbose
                                        THEN Append(@, "preserved") ELSE @]
                ELSE [l EXCEPT !.pc = "drop_user", !.cleanupDB = "open",
                               !.cleanupDSN = dsn]]
    /\ UNCHANGED <<users, dbs, grants, data>>

\* Mutant: the error of teardown is logged and the test goes on.
TeardownFailedSwallowed(l) ==
    [l EXCEPT !.pc = "cleanup", !.cleanupDB = "closed",
              !.logs = Append(@, "failed to teardown")]

\* t.Fatalf("mysqltest: failed to teardown: ...") (lines 179-181) with the
\* deferred db.Close() of the closure (line 171).
TeardownFailed(l) ==
    [l EXCEPT !.pc = "cleanup", !.failed = TRUE, !.cleanupDB = "closed",
              !.logs = Append(@, "failed to teardown")]

\* Mutant: teardown goes on to DROP DATABASE after DROP USER failed.
AfterDropUserErrorContinue(l) == [l EXCEPT !.pc = "drop_db"]

\* What teardown does after DROP USER returned an error (lines 272-274).
AfterDropUserError(l) == TeardownFailed(l)

\* Lines 272-274: DROP USER.  Dropping an account removes its privileges.
DropUser(i) ==
    /\ inv[i].pc = "drop_user"
    /\ \E ok \in BOOLEAN :
         LET user == inv[i].testUser
             l == [inv[i] EXCEPT
                      !.stmts = Append(@,
                            Stmt("DROP USER", user, "", "", ok))]
         IN  /\ ok => user \in users
             /\ users' = IF ok THEN users \ {user} ELSE users
             /\ grants' = IF ok THEN {g \in grants : g[1] # user} ELSE grants
             /\ inv' = [inv EXCEPT ![i] =
                    IF ok THEN [l EXCEPT !.pc = "drop_db"]
                    ELSE AfterDropUserError(l)]
    /\ UNCHANGED <<dbs, data>>

\* Mutant: the teardown drops every generated database.
DatabasesAfterDropAll(dbName) == dbs \ GeneratedNames

\* The databases left after "DROP DATABASE `dbName`" succeeded.
DatabasesAfterDrop(dbName) == dbs \ {dbName}

\* Lines 275-278 and 179-182: DROP DATABASE, then teardown and the closure
\* return.
DropDatabase(i) ==
    /\ inv[i].pc = "drop_db"
    /\ \E ok \in BOOLEAN :
         LET dbName == inv[i].testSchema
             l == [inv[i] EXCEPT
                      !.stmts = Append(@,
                            Stmt("DROP DATABASE", "", "", dbName, ok))]
         IN  /\ ok => dbName \in dbs
             /\ dbs' = IF ok THEN DatabasesAfterDrop(dbName) ELSE dbs
             /\ data' = [d \in DOMAIN data |->
                            IF d \in dbs' THEN data[d] ELSE EmptyDB]
             /\ inv' = [inv EXCEPT ![i] =
                    IF ok THEN [l EXCEPT !.pc = "cleanup", !.cleanupDB = "closed"]
                    ELSE TeardownFailed(l)]
    /\ UNCHANGED <<users, grants>>

\* No closure is left: the test is over.
CleanupDone(i) ==
    /\ inv[i].pc = "cleanup"
    /\ inv[i].cleanups = <<>>
    /\ inv' = [inv EXCEPT ![i] = [@ EXCEPT !.pc = "done"]]
    /\ UNCHANGED <<users, dbs, grants, data>>

\* ------------------------------------------------------------------------
\* Specifications
\* ------------------------------------------------------------------------

\* One test, every option list up to MaxOptions.
Next ==
    \E i \in {"t1"} :
        \/ \E opts \in OptionLists : ResolveConfig(i, opts)
        \/ OpenAdminConn(i)
        \/ Ping(i)
        \/ PingExhausted(i)
        \/ ProbeReturn(i)
        \/ createRandomUser(i)
        \/ createRandomSchema(i)
        \/ grantAll(i)
        \/ flushPrivileges(i)
        \/ RegisterTeardown(i)
        \/ OpenScopedConn(i)
        \/ RunInitialStatement(i)
        \/ RegisterClose(i)
        \/ Return(i)
        \/ InsertRow(i)
        \/ ReadBack(i)
        \/ TestEnd(i)
        \/ CloseTestDB(i)
        \/ TeardownBegin(i)
        \/ DropUser(i)
        \/ DropDatabase(i)
        \/ CleanupDone(i)

Spec == Init /\ [][Next]_vars

\* One test whose goroutine keeps running: every call of the driver and of
\* the testing package returns, so a step that can be taken is taken.
SpecFair == Spec /\ WF_vars(Next)

\* Two tests running in parallel against the same server.
NextConc ==
    \E i \in Invocations :
        \/ \E opts \in ConcOptionLists : ResolveConfig(i, opts)
        \/ OpenAdminConn(i)
        \/ Ping(i)
        \/ PingExhausted(i)
        \/ ProbeReturn(i)
        \/ createRandomUser(i)
        \/ createRandomSchema(i)
        \/ grantAll(i)
        \/ flushPrivileges(i)
        \/ RegisterTeardown(i)
        \/ OpenScopedConn(i)
        \/ RunInitialStatement(i)
        \/ RegisterClose(i)
        \/ Return(i)
        \/ InsertRow(i)
        \/ ReadBack(i)
        \/ TestEnd(i)
        \/ CloseTestDB(i)
        \/ TeardownBegin(i)
        \/ DropUser(i)
        \/ DropDatabase(i)
        \/ CleanupDone(i)

SpecConc == Init /\ [][NextConc]_vars

\* ------------------------------------------------------------------------
\* Helpers of the properties
\* ------------------------------------------------------------------------

IsPrefix(a, b) == Len(a) <= Len(b) /\ SubSeq(b, 1, Len(a)) = a

\* The statements of a test with one of the given operations, in order.
RECURSIVE StmtsOf(_, _)
StmtsOf(stmts, ops) ==
    IF stmts = <<>> THEN <<>>
    ELSE IF Head(stmts).op \in ops
         THEN <<Head(stmts)>> \o StmtsOf(Tail(stmts), ops)
         ELSE StmtsOf(Tail(stmts), ops)

Drops(l) == StmtsOf(l.stmts, {"DROP USER", "DROP DATABASE"})

\* The teardown closure of a test has run to its end.
TeardownClosureRan(l) == l.cleanupDB = "closed"

\* The account a test created is still there as far as the test knows:
\* its CREATE USER succeeded and it has not dropped the account.
LiveUser(l) ==
    /\ \E k \in DOMAIN l.stmts : l.stmts[k].op = "CREATE USER" /\ l.stmts[k].ok
    /\ ~\E k \in DOMAIN l.stmts : l.stmts[k].op = "DROP USER" /\ l.stmts[k].ok

\* The same for the database a test created.
LiveDB(l) ==
    /\ \E k \in DOMAIN l.stmts :
          l.stmts[k].op = "CREATE DATABASE" /\ l.stmts[k].ok
    /\ ~\E k \in DOMAIN l.stmts :
          l.stmts[k].op = "DROP DATABASE" /\ l.stmts[k].ok

\* The steps of the state machine of one invocation.
CanonicalSteps ==
    <<"Resolve-Config", "Open-Admin-Conn", "Probe-Available", "CREATE USER",
      "CREATE DATABASE", "GRANT ALL", "FLUSH PRIVILEGES", "Register-Teardown",
      "Open-Scoped-Conn", "Run-Initial-Statements", "Ready">>

\* The value of the last PreserveTestDB option of a list, FALSE without one;
\* the list is read from its end.
RECURSIVE LastPreserve(_)
LastPreserve(opts) ==
    IF opts = <<>> THEN FALSE
    ELSE IF opts[Len(opts)].kind = "PreserveTestDB"
         THEN opts[Len(opts)].preserve
         ELSE LastPreserve(SubSeq(opts, 1, Len(opts) - 1))

\* ------------------------------------------------------------------------
\* Properties
\* ------------------------------------------------------------------------

\* C1 as stated: a test that reached Ready without preservation has, once
\* its cleanup phase is over, neither its generated user nor its generated
\* database on the server.
C1_Original ==
    \A i \in Invocations :
        (inv[i].pc = "done" /\ inv[i].result = "Ready"
            /\ ~inv[i].rootUserConfig.PreserveTestDB)
        => (inv[i].testUser \notin users /\ inv[i].testSchema \notin dbs)

\* C1 amended: a test that reached Ready without preservation and whose
\* cleanup phase is over without a reported teardown failure has neither its
\* generated user nor its generated database on the server; a reported
\* teardown failure means one of the DROP statements failed and the object
\* whose DROP failed is still there.
C1_CleanupRemoves ==
    \A i \in Invocations :
        LET l == inv[i]
            d == Drops(l)
        IN  (l.pc = "done" /\ l.result = "Ready"
                /\ ~l.rootUserConfig.PreserveTestDB)
            => IF "failed to teardown" \notin {l.logs[k] : k \in DOMAIN l.logs}
               THEN l.testUser \notin users /\ l.testSchema \notin dbs
               ELSE /\ l.failed
                    /\ ~d[Len(d)].ok
                    /\ d[Len(d)].op = "DROP USER" => l.testUser \in users
                    /\ l.testSchema \in dbs

C1_Witness ==
    \E i \in Invocations :
        /\ inv[i].pc = "done" /\ inv[i].result = "Ready"
        /\ ~inv[i].rootUserConfig.PreserveTestDB
        /\ ~inv[i].failed
        /\ Len(Drops(inv[i])) = 2
        /\ inv[i].testUser \notin users /\ inv[i].testSchema \notin dbs

\* C2: with the effective PreserveTestDB flag set no DROP statement is ever
\* issued and the generated user, database and grant outlive the cleanup
\* phase; once the teardown closure has run, DROP statements were issued
\* exactly if the flag is false; the flag is the value of the last
\* PreserveTestDB option, false without one.
C2_PreserveSkipsTeardown ==
    \A i \in Invocations :
        LET l == inv[i]
        IN  /\ l.pc # "start" =>
                l.rootUserConfig.PreserveTestDB = LastPreserve(l.options)
            /\ l.rootUserConfig.PreserveTestDB => Drops(l) = <<>>
            /\ TeardownClosureRan(l) =>
                (Drops(l) # <<>> <=> ~l.rootUserConfig.PreserveTestDB)
            /\ (l.pc = "done" /\ l.result = "Ready"
                    /\ l.rootUserConfig.PreserveTestDB)
               => /\ l.testUser \in users
                  /\ l.testSchema \in dbs
                  /\ <<l.testUser, l.testSchema>> \in grants

C2_Witness ==
    \E i \in Invocations :
        /\ inv[i].pc = "done" /\ inv[i].result = "Ready"
        /\ TeardownClosureRan(inv[i])
        /\ inv[i].rootUserConfig.PreserveTestDB
        /\ Len(inv[i].options) = 2
        /\ inv[i].options[1] = PreserveTestDB(FALSE)
        /\ inv[i].testUser \in users

\* C3: the steps a test has begun are a prefix of the sequence
\* Resolve-Config ... Ready, a test that is Ready has gone through all of
\* them, a test that ended in Fatal has begun no step after the failed one,
\* and the statements sent during setup are CREATE USER, CREATE DATABASE,
\* GRANT ALL, FLUSH PRIVILEGES in this order, each after the success of the
\* one before.
C3_StepOrder ==
    \A i \in Invocations :
        LET l == inv[i]
            setup == StmtsOf(l.stmts, {"CREATE USER", "CREATE DATABASE",
                                       "GRANT ALL", "FLUSH PRIVILEGES"})
        IN  /\ IsPrefix(l.trace, CanonicalSteps)
            /\ l.result = "Ready" <=> l.trace = CanonicalSteps
            /\ l.result = "Fatal" =>
                    /\ l.trace # <<>>
                    /\ l.trace[Len(l.trace)] = l.fatalStep
                    /\ l.fatalStep # "Ready"
            /\ IsPrefix([k \in DOMAIN setup |-> setup[k].op],
                        <<"CREATE USER", "CREATE DATABASE", "GRANT ALL",
                          "FLUSH PRIVILEGES">>)
            /\ \A k \in DOMAIN setup : k < Len(setup) => setup[k].ok
            /\ "Register-Teardown" \in {l.trace[k] : k \in DOMAIN l.trace}
                    => (Len(setup) = 4 /\ setup[4].ok)
            /\ l.cleanups # <<>> =>
                    "Register-Teardown" \in {l.trace[k] : k \in DOMAIN l.trace}

C3_Witness ==
    \E i \in Invocations :
        /\ inv[i].result = "Ready"
        /\ inv[i].trace = CanonicalSteps
        /\ Len(inv[i].executed) = 3

C5_GrantScoped ==
    /\ \A g \in grants :
          g[1] \in GeneratedNames =>
            /\ g[2] # "*"
            /\ \E i \in Invocations :
                  /\ LiveUser(inv[i])
                  /\ inv[i].testUser = g[1]
                  /\ inv[i].testSchema = g[2]
                  /\ \E k \in DOMAIN inv[i].stmts :
                        /\ inv[i].stmts[k].op = "GRANT ALL"
                        /\ inv[i].stmts[k].ok
    /\ \A i \in Invocations :
          \A k \in DOMAIN inv[i].stmts :
            inv[i].stmts[k].op = "GRANT ALL" =>
                /\ inv[i].stmts[k].user = inv[i].testUser
                /\ inv[i].stmts[k].db = inv[i].testSchema
                /\ \E u \in 1 .. (k - 1) :
                      /\ inv[i].stmts[u].op = "CREATE USER"
                      /\ inv[i].stmts[u].user = inv[i].stmts[k].user
                      /\ inv[i].stmts[u].ok
                /\ \E d \in 1 .. (k - 1) :
                      /\ inv[i].stmts[d].op = "CREATE DATABASE"
                      /\ inv[i].stmts[d].db = inv[i].stmts[k].db
                      /\ inv[i].stmts[d].ok
    /\ \A i, j \in Invocations :
          (i # j /\ LiveUser(inv[i]) /\ LiveDB(inv[j]))
          => <<inv[i].testUser, inv[j].testSchema>> \notin grants

C5_Witness ==
    /\ \A i \in Invocations :
          /\ <<inv[i].testUser, inv[i].testSchema>> \in grants
          /\ inv[i].pc \in {"open_scoped", "queries", "body"}
    /\ inv["t1"].testUser # inv["t2"].testUser
    /\ inv["t1"].testSchema # inv["t2"].testSchema

\* C6 as stated: when the teardown has run, DROP USER and DROP DATABASE were
\* issued, once each and in this order, and neither the user nor the
\* database is left, whatever the outcome of the statements.
C6_Original ==
    \A i \in Invocations :
        LET l == inv[i]
            d == Drops(l)
        IN  (TeardownClosureRan(l) /\ ~l.rootUserConfig.PreserveTestDB)
            => /\ [k \in DOMAIN d |-> d[k].op] = <<"DROP USER", "DROP DATABASE">>
               /\ l.testUser \notin users
               /\ l.testSchema \notin dbs

\* C6 amended: teardown issues DROP USER on the generated user first and
\* DROP DATABASE on the generated database only after DROP USER succeeded,
\* each at most once; when both succeed, user and database are gone; when
\* DROP USER fails, DROP DATABASE is not issued and user and database stay;
\* when DROP DATABASE fails, the user is gone and the database stays; a
\* failed DROP marks the test failed.
C6_TeardownDrops ==
    \A i \in Invocations :
        LET l == inv[i]
            d == Drops(l)
        IN  /\ IsPrefix([k \in DOMAIN d |-> d[k].op],
                        <<"DROP USER", "DROP DATABASE">>)
            /\ Len(d) >= 1 => d[1].user = l.testUser
            /\ Len(d) = 2 => (d[1].ok /\ d[2].db = l.testSchema)
            /\ (TeardownClosureRan(l) /\ ~l.rootUserConfig.PreserveTestDB) =>
                /\ d # <<>>
                /\ d[1].ok => Len(d) = 2
                /\ (\A k \in DOMAIN d : d[k].ok) =>
                        (l.testUser \notin users /\ l.testSchema \notin dbs)
                /\ ~d[1].ok =>
                        /\ Len(d) = 1
                        /\ l.testUser \in users
                        /\ l.testSchema \in dbs
                        /\ l.failed
                /\ (Len(d) = 2 /\ ~d[2].ok) =>
                        /\ l.testUser \notin users
                        /\ l.testSchema \in dbs
                        /\ l.failed

C6_Witness ==
    \E i \in Invocations :
        /\ TeardownClosureRan(inv[i])
        /\ ~inv[i].rootUserConfig.PreserveTestDB
        /\ Len(Drops(inv[i])) = 1
        /\ ~Drops(inv[i])[1].ok
        /\ inv[i].testSchema \in dbs

\* C7 as stated: a scoped connection that was opened is registered for
\* closing whatever the initial statements do, so it is closed when the
\* cleanup phase of the test is over.
C7_ScopedConnClosed ==
    \A i \in Invocations :
        /\ (inv[i].testDB = "open" /\ inv[i].pc \in {"cleanup", "body"})
                => \E k \in DOMAIN inv[i].cleanups : inv[i].cleanups[k] = "close"
        /\ (inv[i].pc = "done" /\ inv[i].testDB # "nil")
                => inv[i].testDB = "closed"

\* C8: the queries handed to the scoped connection are the configured
\* queries, in their order, without a gap; only the last one handed over can
\* have failed, a failure ends the setup in Fatal at this step with the
\* later queries never sent, and a test that is Ready has run all of them.
C8_InitialStatements ==
    \A i \in Invocations :
        LET l == inv[i]
            qs == l.testUserConfig.Queries
        IN  /\ IsPrefix([k \in DOMAIN l.executed |-> l.executed[k].query], qs)
            /\ \A k \in DOMAIN l.executed :
                    ~l.executed[k].ok =>
                        /\ k = Len(l.executed)
                        /\ l.result = "Fatal"
                        /\ l.fatalStep = "Run-Initial-Statements"
            /\ l.executed # <<>> => l.testDB # "nil"
            /\ l.result = "Ready" =>
                    /\ Len(l.executed) = Len(qs)
                    /\ \A k \in DOMAIN l.executed : l.executed[k].ok
            /\ l.pc # "start" => qs \in {<<>>, newConfig(l.options).Queries}

C8_Witness ==
    \E i \in Invocations :
        /\ inv[i].pc = "done"
        /\ Len(inv[i].testUserConfig.Queries) = 3
        /\ Len(inv[i].executed) = 2
        /\ inv[i].executed[1].ok
        /\ ~inv[i].executed[2].ok

\* C9 as stated: on the administrative and on the scoped connection none of
\* Addr, User, Passwd and DBName carries what a ModifyMySQLConfig function
\* wrote.
C9_FourFieldsOverwritten ==
    \A i \in Invocations :
        \A dsn \in {inv[i].rootDSN, inv[i].testDSN} \ {<<>>} :
            /\ DSNUser(dsn) # "calleruser"
            /\ DSNPasswd(dsn) # "callerpw"
            /\ DSNAddr(dsn) # "callerhost:3307"
            /\ DSNDBName(dsn) # "callerdb"

\* C10: the scoped connection is opened on the database the same test
\* generated, also when a ModifyMySQLConfig function wrote DBName, and the
\* Conn that is returned names this database.
C10_ScopedDBName ==
    \A i \in Invocations :
        LET l == inv[i]
        IN  /\ l.testDB # "nil" =>
                /\ DSNDBName(l.testDSN) = l.testSchema
                /\ l.testSchema \in GeneratedNames
                /\ DSNDBName(l.testDSN) # "callerdb"
                /\ \E k \in DOMAIN l.stmts :
                      /\ l.stmts[k].op = "CREATE DATABASE"
                      /\ l.stmts[k].ok
                      /\ l.stmts[k].db = DSNDBName(l.testDSN)
            /\ l.result = "Ready" =>
                /\ l.conn.DB = "testDB"
                /\ l.conn.Schema = DSNDBName(l.testDSN)

C10_Witness ==
    \E i \in Invocations :
        /\ inv[i].result = "Ready"
        /\ \E k \in DOMAIN inv[i].options :
              inv[i].options[k] = ModifyMySQLConfig("setAll")
        /\ newConfig(inv[i].options).MySQLConfig.DBName = "callerdb"
        /\ DSNDBName(inv[i].testDSN) = inv[i].testSchema

\* C11: when SetupDatabase has returned, the User and the Password of the
\* Conn are the user and the password of the CREATE USER statement of the
\* same test, its Schema is the database of the CREATE DATABASE and of the
\* GRANT statement, the GRANT names the same user, and the DSN the returned
\* connection was opened with carries these three values.
C11_ConnIdentity ==
    \A i \in Invocations :
        LET l == inv[i]
            cu == StmtsOf(l.stmts, {"CREATE USER"})
            cd == StmtsOf(l.stmts, {"CREATE DATABASE"})
            gr == StmtsOf(l.stmts, {"GRANT ALL"})
        IN  l.result = "Ready" =>
                /\ Len(cu) = 1 /\ Len(cd) = 1 /\ Len(gr) = 1
                /\ cu[1].ok /\ cd[1].ok /\ gr[1].ok
                /\ l.conn.User = cu[1].user
                /\ l.conn.Password = cu[1].passwd
                /\ l.conn.Schema = cd[1].db
                /\ gr[1].db = l.conn.Schema
                /\ gr[1].user = l.conn.User
                /\ l.conn.DB = "testDB"
                /\ l.testDB # "nil"
                /\ DSNUser(l.testDSN) = l.conn.User
                /\ DSNPasswd(l.testDSN) = l.conn.Password
                /\ DSNDBName(l.testDSN) = l.conn.Schema

C11_Witness ==
    \E i \in Invocations :
        /\ inv[i].result = "Ready"
        /\ inv[i].conn.User = Prefixed("aaaaaaaaaaaa")
        /\ inv[i].conn.Password = "bbbbbbbbbbbb"
        /\ inv[i].conn.Schema = Prefixed("bbbbbbbbbbbb")
        /\ \E k \in DOMAIN inv[i].options :
              inv[i].options[k] = ModifyMySQLConfig("setAll")

\* C12: with two tests interleaved, every row a test reads back through its
\* connection, and every row in the database of a test, was written through
\* the connection of the same test; the DROP statements of a test name its
\* own user and database; and the user, the database and the grant a test
\* created stay on the server until the test itself drops them.
C12_Isolation ==
    \A i \in Invocations :
        LET l == inv[i]
            d == Drops(l)
        IN  /\ \A k \in DOMAIN l.readBack : l.readBack[k].by = i
            /\ LiveDB(l) =>
                /\ l.testSchema \in dbs
                /\ \A k \in DOMAIN data[l.testSchema].rows :
                        data[l.testSchema].rows[k].by = i
            /\ LiveUser(l) => l.testUser \in users
            /\ (LiveUser(l) /\ \E k \in DOMAIN l.stmts :
                    l.stmts[k].op = "GRANT ALL" /\ l.stmts[k].ok)
                => <<l.testUser, l.testSchema>> \in grants
            /\ \A k \in DOMAIN d :
                    /\ d[k].op = "DROP USER" => d[k].user = l.testUser
                    /\ d[k].op = "DROP DATABASE" => d[k].db = l.testSchema
            /\ \A k \in DOMAIN l.written :
                    (l.pc \in {"body", "read"}) =>
                        \E n \in DOMAIN data[l.testSchema].rows :
                            data[l.testSchema].rows[n] = l.written[k]

C12_Witness ==
    /\ \A i \in Invocations :
          /\ inv[i].pc = "read"
          /\ inv[i].readBack = <<[item |-> "item", by |-> i]>>
    /\ inv["t1"].testSchema # inv["t2"].testSchema

\* The statements of the Query and Queries options of a list, in argument
\* order.
RECURSIVE QueriesOf(_)
QueriesOf(opts) ==
    IF opts = <<>> THEN <<>>
    ELSE (IF Head(opts).kind \in {"Query", "Queries"}
          THEN Head(opts).queries ELSE <<>>) \o QueriesOf(Tail(opts))

\* The rows the INSERT statements of a statement list leave in an empty
\* database, when sent by the given test.
RECURSIVE RowsOf(_, _)
RowsOf(queries, by) ==
    IF queries = <<>> THEN <<>>
    ELSE (IF Head(queries) = "q1" THEN <<>>
          ELSE <<[item |-> Head(queries), by |-> by]>>)
         \o RowsOf(Tail(queries), by)

\* The content of an empty database after the statements of a list.
ContentOf(queries, by) ==
    [todos |-> \E k \in DOMAIN queries : queries[k] = "q1",
     rows |-> RowsOf(queries, by)]

\* C13 as stated: at Ready the generated database holds what the configured
\* initial statements make of an empty database, and one row inserted and
\* read back through the connection is the only row returned.
C13_Original ==
    \A i \in Invocations :
        LET l == inv[i]
        IN  /\ (l.result = "Ready" /\ l.pc = "body" /\ l.inserts = 0)
                => data[l.conn.Schema] = ContentOf(QueriesOf(l.options), i)
            /\ (l.pc = "read" /\ Len(l.written) = 1)
                => l.readBack = l.written

\* C13: at Ready the generated database holds what the configured initial
\* statements make of an empty database; the rows read back through the
\* connection are the rows the initial statements inserted followed by the
\* rows the test inserted, so an inserted row is the only row returned
\* when the initial statements insert none.
C13_RoundTrip ==
    \A i \in Invocations :
        LET l == inv[i]
            initial == RowsOf(QueriesOf(l.options), i)
        IN  /\ (l.result = "Ready" /\ l.pc = "body" /\ l.inserts = 0)
                => data[l.conn.Schema] = ContentOf(QueriesOf(l.options), i)
            /\ l.pc = "read" => l.readBack = initial \o l.written
            /\ (l.pc = "read" /\ Len(l.written) = 1 /\ initial = <<>>)
                => l.readBack = l.written

C13_Witness ==
    LET l == inv["t1"]
    IN  /\ l.pc = "read"
        /\ Len(l.executed) = 3
        /\ \A k \in 1..3 : l.executed[k].ok
        /\ l.written = <<[item |-> "item", by |-> "t1"]>>
        /\ Len(l.readBack) = 3
        /\ l.readBack[3] = l.written[1]

\* C14: once a DROP USER or a DROP DATABASE of the teardown of a test has
\* failed, the test is marked failed through t.Fatalf with the teardown
\* message, and it stays so to the end of the test.
C14_TeardownFailureReported ==
    \A i \in Invocations :
        LET l == inv[i]
            d == Drops(l)
        IN  (\E k \in DOMAIN d : ~d[k].ok) =>
                /\ l.failed
                /\ \E n \in DOMAIN l.logs : l.logs[n] = "failed to teardown"
                /\ l.pc \in {"cleanup", "done"}

C14_Witness ==
    LET l == inv["t1"]
        d == Drops(l)
    IN  /\ l.pc = "done"
        /\ l.result = "Ready"
        /\ Len(d) = 2
        /\ d[1].ok
        /\ d[2].op = "DROP DATABASE" /\ ~d[2].ok
        /\ l.failed

\* C15: a test whose closure closing testDB logged a Close error is marked
\* failed only when its teardown failed; the teardown closure registered
\* before it is still on the stack right after the Close error and has run
\* by the end of the cleanup phase.
C15_CloseErrorOnlyLogged ==
    \A i \in Invocations :
        LET l == inv[i]
            closeFailed == \E n \in DOMAIN l.logs : l.logs[n] = "close failed"
            teardownFailed ==
                \E n \in DOMAIN l.logs : l.logs[n] = "failed to teardown"
        IN  closeFailed =>
                /\ l.result = "Ready"
                /\ l.testDB = "closed"
                /\ l.failed => teardownFailed
                /\ (l.pc = "cleanup" /\ l.cleanupDB = "nil")
                        => l.cleanups = <<"teardown">>
                /\ l.pc = "done" => TeardownClosureRan(l)

C15_Witness ==
    LET l == inv["t1"]
        d == Drops(l)
    IN  /\ l.pc = "done"
        /\ \E n \in DOMAIN l.logs : l.logs[n] = "close failed"
        /\ ~l.failed
        /\ Len(d) = 2 /\ d[1].ok /\ d[2].ok
        /\ l.testUser \notin users
        /\ l.testSchema \notin dbs

\* C16 as stated: the provisioning connection is closed before the scoped
\* connection is opened and before any initial statement runs, and the
\* teardown runs on a connection of its own.
C16_Original ==
    \A i \in Invocations :
        LET l == inv[i]
        IN  /\ (l.testDB # "nil" \/ l.executed # <<>>) => l.db = "closed"
            /\ l.cleanupDB = "open" =>
                    /\ l.db = "closed"
                    /\ l.cleanupDSN = l.rootDSN

\* C16: the provisioning connection stays open while SetupDatabase runs,
\* the opening of the scoped connection and the initial statements
\* included, and is closed when SetupDatabase returns or aborts, so it is
\* not held during the body of the test; the teardown opens a connection of
\* its own, with the same DSN, when the provisioning one is closed.
C16_AdminConnLifetime ==
    \A i \in Invocations :
        LET l == inv[i]
        IN  /\ (l.result = "running" /\ l.db # "nil") => l.db = "open"
            /\ (l.result = "running" /\ (l.testDB # "nil" \/ l.executed # <<>>))
                    => l.db = "open"
            /\ l.result = "Ready" => l.db = "closed"
            /\ l.result = "Fatal" => l.db \in {"closed", "nil"}
            /\ l.cleanupDB = "open" =>
                    /\ l.db = "closed"
                    /\ l.cleanupDSN = l.rootDSN

C16_Witness ==
    LET l == inv["t1"]
    IN  /\ l.cleanupDB = "open"
        /\ l.db = "closed"
        /\ l.pc = "drop_user"
        /\ l.executed # <<>>
        /\ l.testDB = "closed"

\* C17: under SpecFair the invocation ends in Ready or Fatal; the probe
\* never runs more than maxPingRetries iterations; an invocation that is
\* Fatal stopped at the step that failed; and once the invocation has ended
\* no setup step runs any more: its step trace, its provisioning statements
\* and its executed initial statements stay as they are.
C17_Terminates ==
    /\ <>(inv["t1"].result \in {"Ready", "Fatal"})
    /\ [](\A i \in Invocations :
            LET l == inv[i]
            IN  /\ l.pings <= maxPingRetries
                /\ l.result = "Fatal" =>
                        /\ l.trace # <<>>
                        /\ l.trace[Len(l.trace)] = l.fatalStep
                        /\ l.fatalStep # "Ready"
                        /\ l.pc \in {"cleanup", "drop_user", "drop_db", "done"}
                /\ l.result = "Ready" => l.trace = CanonicalSteps)
    /\ [][\A i \in Invocations :
            inv[i].result # "running" =>
                /\ inv'[i].result = inv[i].result
                /\ inv'[i].trace = inv[i].trace
                /\ inv'[i].executed = inv[i].executed
                /\ inv'[i].conn = inv[i].conn
                /\ StmtsOf(inv'[i].stmts,
                           {"CREATE USER", "CREATE DATABASE", "GRANT ALL",
                            "FLUSH PRIVILEGES"})
                   = StmtsOf(inv[i].stmts,
                           {"CREATE USER", "CREATE DATABASE", "GRANT ALL",
                            "FLUSH PRIVILEGES"})]_vars

C17_Witness ==
    LET l == inv["t1"]
    IN  /\ l.pc = "done"
        /\ l.result = "Fatal"
        /\ l.fatalStep = "Probe-Available"
        /\ l.trace = <<"Resolve-Config", "Open-Admin-Conn", "Probe-Available">>
        /\ l.stmts = <<>>

\* C18: a test that aborted at CREATE DATABASE, GRANT or FLUSH PRIVILEGES
\* has registered no teardown and issues no DROP statement, in its cleanup
\* phase and after it; the user it created is still on the server, and so
\* are the database when the abort came after CREATE DATABASE and the grant
\* when it came at FLUSH PRIVILEGES.
C18_NoRollback ==
    \A i \in Invocations :
        LET l == inv[i]
        IN  (/\ l.result = "Fatal"
             /\ l.fatalStep \in {"CREATE DATABASE", "GRANT ALL",
                                 "FLUSH PRIVILEGES"})
            =>  /\ Drops(l) = <<>>
                /\ l.cleanups = <<>>
                /\ l.cleanupDB = "nil"
                /\ \A k \in DOMAIN l.trace : l.trace[k] # "Register-Teardown"
                /\ l.pc \in {"cleanup", "done"}
                /\ l.testUser \in users
                /\ l.fatalStep # "CREATE DATABASE" => l.testSchema \in dbs
                /\ l.fatalStep = "FLUSH PRIVILEGES"
                        => <<l.testUser, l.testSchema>> \in grants

C18_Witness ==
    LET l == inv["t1"]
    IN  /\ l.pc = "done"
        /\ l.result = "Fatal"
        /\ l.fatalStep = "GRANT ALL"
        /\ l.testUser \in users
        /\ l.testSchema \in dbs
        /\ Len(l.stmts) = 3

\* C19: the statement sequence of the configuration is the concatenation of
\* the statements of the Query and Queries options in argument order, the
\* initial statements executed are a prefix of it and, at Ready, all of it;
\* the PreserveTestDB flag is the value of the last PreserveTestDB option.
C19_OptionOrder ==
    \A i \in Invocations :
        LET l == inv[i]
            configured == QueriesOf(l.options)
            ran == [k \in DOMAIN l.executed |-> l.executed[k].query]
        IN  l.pc # "start" =>
                /\ l.rootUserConfig.Queries = configured
                /\ l.rootUserConfig.PreserveTestDB = LastPreserve(l.options)
                /\ IsPrefix(ran, configured)
                /\ l.testDB # "nil" => l.testUserConfig.Queries = configured
                /\ l.result = "Ready" => ran = configured

C19_Witness ==
    LET l == inv["t1"]
    IN  /\ l.result = "Ready"
        /\ Len(l.options) = 2
        /\ l.options[1].kind = "Query"
        /\ l.options[2].kind = "Queries"
        /\ Len(l.executed) = 3
        /\ l.executed[1].query = "q1"
        /\ l.executed[2].query = "q2"
        /\ l.executed[3].query = "q3"

\* C20 as stated: every option function of a SetupDatabase call is applied
\* exactly once, and the configuration built from the options is not
\* modified afterwards.
C20_Original ==
    \A i \in Invocations :
        LET l == inv[i]
        IN  l.pc # "start" =>
                /\ DOMAIN l.calls = 1 .. Len(l.options)
                /\ \A k \in DOMAIN l.calls : l.calls[k] = 1
                /\ l.rootUserConfig = RootUserConfig(l.options)

\* C20: SetupDatabase builds two configurations from the same options, the
\* root one first and the test user's at the scoped-connection step, so
\* every option function has been applied once before that step and twice
\* from it on; neither configuration is modified once it is built.
C20_BuiltTwice ==
    \A i \in Invocations :
        LET l == inv[i]
            scoped == \E k \in DOMAIN l.trace : l.trace[k] = "Open-Scoped-Conn"
        IN  l.pc # "start" =>
                /\ DOMAIN l.calls = 1 .. Len(l.options)
                /\ \A k \in DOMAIN l.calls :
                        l.calls[k] = IF scoped THEN 2 ELSE 1
                /\ l.rootUserConfig = RootUserConfig(l.options)
                /\ l.testUserConfig =
                        IF scoped
                        THEN TestUserConfig(l.options, l.testUser,
                                            l.testPasswd, l.testSchema)
                        ELSE DefaultConfig

C20_Witness ==
    LET l == inv["t1"]
    IN  /\ l.result = "Ready"
        /\ Len(l.options) = 2
        /\ l.calls = <<2, 2>>
        /\ l.options[1].kind = "ModifyMySQLConfig"

\* C21: a test that reached Ready has the teardown closure below the close
\* closure on its cleanup stack, and its scoped connection is closed
\* whenever its teardown closure has started: when the teardown connection
\* is open, when a DROP is about to be sent and when one has been sent.
C21_CloseBeforeTeardown ==
    \A i \in Invocations :
        LET l == inv[i]
        IN  l.result = "Ready" =>
                /\ l.pc \in {"body", "read"} => l.cleanups = <<"teardown", "close">>
                /\ (\/ l.pc \in {"drop_user", "drop_db"}
                    \/ l.cleanupDB # "nil"
                    \/ Drops(l) # <<>>)
                    => l.testDB = "closed"
                /\ l.testDB = "open" =>
                        \E k \in DOMAIN l.cleanups : l.cleanups[k] = "teardown"

C21_Witness ==
    LET l == inv["t1"]
    IN  /\ l.result = "Ready"
        /\ l.pc = "drop_db"
        /\ l.testDB = "closed"
        /\ l.cleanupDB = "open"
        /\ Len(Drops(l)) = 1

\* C22 as stated: a test that aborted at the opening of the scoped
\* connection or at an initial statement has, once its cleanup phase is
\* over, run its teardown closure and, without preservation, has neither
\* its generated user nor its generated database on the server.
C22_Original ==
    \A i \in Invocations :
        LET l == inv[i]
        IN  (/\ l.result = "Fatal"
             /\ l.fatalStep \in {"Open-Scoped-Conn", "Run-Initial-Statements"}
             /\ l.pc = "done")
            =>  /\ TeardownClosureRan(l)
                /\ ~l.rootUserConfig.PreserveTestDB =>
                        (l.testUser \notin users /\ l.testSchema \notin dbs)

\* C22: a test that aborted at the opening of the scoped connection or at
\* an initial statement enters its cleanup phase with the teardown closure
\* registered and no close closure; once the phase is over the teardown
\* closure has run; with preservation it sent no DROP and user and database
\* are still there; without it, it sent DROP USER for the generated user
\* and, after that succeeded, DROP DATABASE for the generated database,
\* user and database are gone when both succeeded, and the object whose
\* DROP failed is still there otherwise.
C22_TeardownAfterFatal ==
    \A i \in Invocations :
        LET l == inv[i]
            d == Drops(l)
        IN  (/\ l.result = "Fatal"
             /\ l.fatalStep \in {"Open-Scoped-Conn", "Run-Initial-Statements"})
            =>  /\ (l.pc = "cleanup" /\ l.cleanupDB = "nil")
                        => l.cleanups = <<"teardown">>
                /\ \A k \in DOMAIN l.cleanups : l.cleanups[k] # "close"
                /\ l.pc = "done" =>
                    /\ TeardownClosureRan(l)
                    /\ l.rootUserConfig.PreserveTestDB =>
                        /\ d = <<>>
                        /\ l.testUser \in users
                        /\ l.testSchema \in dbs
                    /\ ~l.rootUserConfig.PreserveTestDB =>
                        /\ d # <<>>
                        /\ d[1].op = "DROP USER" /\ d[1].user = l.testUser
                        /\ d[1].ok =>
                            /\ Len(d) = 2
                            /\ d[2].op = "DROP DATABASE"
                            /\ d[2].db = l.testSchema
                            /\ l.testUser \notin users
                            /\ d[2].ok <=> l.testSchema \notin dbs
                        /\ ~d[1].ok =>
                            /\ Len(d) = 1
                            /\ l.testUser \in users
                            /\ l.testSchema \in dbs

C22_Witness ==
    LET l == inv["t1"]
        d == Drops(l)
    IN  /\ l.pc = "done"
        /\ l.result = "Fatal"
        /\ l.fatalStep = "Open-Scoped-Conn"
        /\ l.testUser # ""
        /\ Len(d) = 2 /\ d[1].ok /\ d[2].ok
        /\ l.testUser \notin users
        /\ l.testSchema \notin dbs

\* The same for an abort at an initial statement.
C22_WitnessStatement ==
    LET l == inv["t1"]
        d == Drops(l)
    IN  /\ l.pc = "done"
        /\ l.result = "Fatal"
        /\ l.fatalStep = "Run-Initial-Statements"
        /\ Len(d) = 2 /\ d[1].ok /\ d[2].ok

\* C23: once SetupDatabase has ended, in Ready or in Fatal at any step
\* after the administrative connection was opened, that connection is
\* closed; it is never open in the body of the test or in its cleanup
\* phase; it is not closed when its opening itself failed, as there is none.
C23_AdminConnClosedOnExit ==
    \A i \in Invocations :
        LET l == inv[i]
            opened == l.rootDSN # <<>>
        IN  /\ (l.result \in {"Ready", "Fatal"} /\ opened) => l.db = "closed"
            /\ (l.result = "Fatal" /\ l.fatalStep \in
                    {"Probe-Available", "CREATE USER", "CREATE DATABASE",
                     "GRANT ALL", "FLUSH PRIVILEGES", "Open-Scoped-Conn",
                     "Run-Initial-Statements"}) => l.db = "closed"
            /\ (l.result = "Fatal" /\ l.fatalStep = "Open-Admin-Conn")
                    => (l.db = "nil" /\ ~opened)
            /\ l.pc \in {"body", "read", "cleanup", "drop_user", "drop_db",
                         "done"} => l.db # "open"

C23_Witness ==
    LET l == inv["t1"]
    IN  /\ l.result = "Fatal"
        /\ l.fatalStep = "FLUSH PRIVILEGES"
        /\ l.pc = "cleanup"
        /\ l.rootDSN # <<>>
        /\ l.db = "closed"

\* C24: no step after the resolution of the configuration changes
\* rootUserConfig, the building of testUserConfig included; the DSN the
\* teardown closure opens is the DSN of the provisioning connection, with
\* the root user, the root password and the address of rootUserConfig, and
\* it names neither the generated user, nor its password, nor the generated
\* database, which are what the scoped DSN names.
C24_AdminParamsUnchanged ==
    /\ [][\A i \in Invocations :
            inv[i].pc # "start" =>
                inv'[i].rootUserConfig = inv[i].rootUserConfig]_vars
    /\ [](\A i \in Invocations :
            LET l == inv[i]
                mc == l.rootUserConfig.MySQLConfig
            IN  /\ l.testDSN # <<>> =>
                    /\ l.rootUserConfig = RootUserConfig(l.options)
                    /\ FormatDSN(mc) = l.rootDSN
                    /\ DSNUser(l.testDSN) = l.testUser
                    /\ DSNDBName(l.testDSN) = l.testSchema
                /\ l.cleanupDSN # <<>> =>
                    /\ l.cleanupDSN = l.rootDSN
                    /\ DSNUser(l.cleanupDSN) = l.rootUserConfig.RootUser
                    /\ DSNPasswd(l.cleanupDSN) = l.rootUserConfig.RootPassword
                    /\ DSNAddr(l.cleanupDSN) = mc.Addr
                    /\ DSNUser(l.cleanupDSN) # l.testUser
                    /\ DSNPasswd(l.cleanupDSN) # l.testPasswd
                    /\ DSNDBName(l.cleanupDSN) # l.testSchema)

C24_Witness ==
    LET l == inv["t1"]
    IN  /\ l.pc = "drop_user"
        /\ l.cleanupDB = "open"
        /\ l.testDSN # <<>>
        /\ DSNUser(l.cleanupDSN) = "admin"
        /\ DSNPasswd(l.cleanupDSN) = "secret"
        /\ DSNUser(l.testDSN) = l.testUser
        /\ l.testDSN # l.cleanupDSN

====
